---------------------------- MODULE Spec2Model ----------------------------
(***************************************************************************)
(* A model of exafmm "minimal" uniform/ewald2.h: class Ewald2.              *)
(*                                                                         *)
(* Numbers.  Positions, wave numbers, source strengths, radii, the cutoff  *)
(* and the periodic cycle are integers (exactly representable real_t       *)
(* values).  The transcendental factors of the kernels (erfc, exp, cos,    *)
(* sin, the powers of alpha, pi) are kept symbolic: an accumulator is the  *)
(* sequence of the nonzero terms that were added to it, in the order of    *)
(* the additions, each term carrying the integer data that determines it.  *)
(* x + 0 = x, so a zero term leaves an accumulator as it is; a NaN term    *)
(* (0/0) is a term of its own.                                             *)
(***************************************************************************)
EXTENDS Integers, Sequences, FiniteSets, TLC

VARIABLES
  ewald,    \* the Ewald2 object: [ksize, cutoff, cycle] (alpha, sigma symbolic)
  bodies,   \* Bodies: sequence of [X, SRC, TRG]
  cells,    \* target Cells: sequence of [X, R, BODY, NBODY, ICHILD, NCHILD]
  jcells,   \* source Cells
  waves,    \* Waves: sequence of [K, REAL, IMAG]
  Ibodies,  \* vec4 *Ibodies of wavePart: sequence of 4 accumulators each
  Jbodies,  \* vec4 *Jbodies of wavePart: sequence of <<x, y, z, q>>
  pc,       \* position of the running call
  loc,      \* locals of the running call (loop indices, stack, private values)
  hist      \* observation log of the calls made (not program state)

vars == <<ewald, bodies, cells, jcells, waves, Ibodies, Jbodies, pc, loc, hist>>

----------------------------------------------------------------------------
(* Bounds of the model *)

\* largest ksize the wave enumeration is run with
MaxKsize == 2

----------------------------------------------------------------------------
(* vec3 arithmetic (types.h vec<3,real_t>, used throughout ewald2.h) *)

Vec3Sub(a, b) == <<a[1] - b[1], a[2] - b[2], a[3] - b[3]>>

Vec3Neg(a) == <<-a[1], -a[2], -a[3]>>

\* norm(v): the squared length
Norm(v) == v[1] * v[1] + v[2] * v[2] + v[3] * v[3]

----------------------------------------------------------------------------
(* Symbolic real_t accumulators *)

\* the value 0
Zero == <<>>

\* v += t for a term t whose integer coefficient is t.c: a term with t.c = 0
\* is 0 and leaves the sum as it is. A value is the sum of its terms in the
\* order they were added, each term the expression the code evaluates.
Acc(v, t) == IF t.c = 0 THEN v ELSE Append(v, t)

----------------------------------------------------------------------------
(* Ewald2::initWaves *)

\* a freshly pushed wave: K = (l, m, n), REAL = IMAG = 0
NewWave(l, m, n) == [K |-> <<l, m, n>>, REAL |-> Zero, IMAG |-> Zero]

\* int mmin = -kmax; if (l==0) mmin = 0;
Mmin(l, kmax) == IF l = 0 THEN 0 ELSE -kmax

\* mutant of Nmin: the exception starts at 0, which lets (0,0,0) in
NminFromZero(l, m, kmax) == IF l = 0 /\ m = 0 THEN 0 ELSE -kmax

\* int nmin = -kmax; if (l==0 && m==0) nmin = 1;
Nmin(l, m, kmax) == IF l = 0 /\ m = 0 THEN 1 ELSE -kmax

\* body of the innermost loop: push (l,m,n) when ksq <= kmaxsq
WaveBody(ws, l, m, n, kmaxsq) ==
  LET ksq == l * l + m * m + n * n
  IN  IF ksq <= kmaxsq THEN Append(ws, NewWave(l, m, n)) ELSE ws

RECURSIVE initWavesN(_, _, _, _)
\* for (int n=nmin; n<=kmax; n++): the waves pushed from n on, in order
initWavesN(l, m, n, kmax) ==
  IF n > kmax THEN <<>>
  ELSE WaveBody(<<>>, l, m, n, kmax * kmax) \o initWavesN(l, m, n + 1, kmax)

RECURSIVE initWavesM(_, _, _)
\* for (int m=mmin; m<=kmax; m++): the waves pushed from m on, in order
initWavesM(l, m, kmax) ==
  IF m > kmax THEN <<>>
  ELSE initWavesN(l, m, Nmin(l, m, kmax), kmax) \o initWavesM(l, m + 1, kmax)

RECURSIVE initWavesFrom(_, _)
\* for (int l=0; l<=kmax; l++): the waves pushed from l on, in order
initWavesFrom(l, kmax) ==
  IF l > kmax THEN <<>>
  ELSE initWavesM(l, Mmin(l, kmax), kmax) \o initWavesFrom(l + 1, kmax)

\* Waves initWaves() const
initWaves(k) == initWavesFrom(0, k)

----------------------------------------------------------------------------
(* Specification SpecWaves: initWaves run loop step by loop step *)

NoBodies == <<>>

InitWavesSpec ==
  /\ ewald \in [ksize : 0..MaxKsize, cutoff : {1}, cycle : {<<8, 8, 8>>}]
  /\ bodies = NoBodies /\ cells = <<>> /\ jcells = <<>>
  /\ Ibodies = <<>> /\ Jbodies = <<>>
  /\ waves = <<>>
  /\ pc = "call"
  /\ loc = [l |-> 0, m |-> 0, n |-> 0]
  /\ hist = <<>>

WavesFrame == UNCHANGED <<ewald, bodies, cells, jcells, Ibodies, Jbodies, hist>>

\* Waves waves; ... for (int l=0; ...
IW_Enter ==
  /\ pc = "call"
  /\ waves' = <<>>
  /\ loc' = [l |-> 0, m |-> 0, n |-> 0]
  /\ pc' = "l"
  /\ WavesFrame

\* for (int l=0; l<=kmax; l++) { int mmin ... for (int m=mmin; ...
IW_LoopL ==
  /\ pc = "l"
  /\ IF loc.l <= ewald.ksize
       THEN /\ loc' = [loc EXCEPT !.m = Mmin(loc.l, ewald.ksize)]
            /\ pc' = "m"
       ELSE /\ loc' = loc
            /\ pc' = "ret"
  /\ UNCHANGED waves
  /\ WavesFrame

\* for (int m=mmin; m<=kmax; m++) { int nmin ... for (int n=nmin; ...
IW_LoopM ==
  /\ pc = "m"
  /\ IF loc.m <= ewald.ksize
       THEN /\ loc' = [loc EXCEPT !.n = Nmin(loc.l, loc.m, ewald.ksize)]
            /\ pc' = "n"
       ELSE /\ loc' = [loc EXCEPT !.l = loc.l + 1]
            /\ pc' = "l"
  /\ UNCHANGED waves
  /\ WavesFrame

\* for (int n=nmin; n<=kmax; n++) { ... push_back ... }
IW_LoopN ==
  /\ pc = "n"
  /\ IF loc.n <= ewald.ksize
       THEN /\ waves' = WaveBody(waves, loc.l, loc.m, loc.n,
                                 ewald.ksize * ewald.ksize)
            /\ loc' = [loc EXCEPT !.n = loc.n + 1]
            /\ pc' = "n"
       ELSE /\ waves' = waves
            /\ loc' = [loc EXCEPT !.m = loc.m + 1]
            /\ pc' = "m"
  /\ WavesFrame

NextWaves == IW_Enter \/ IW_LoopL \/ IW_LoopM \/ IW_LoopN

SpecWaves == InitWavesSpec /\ [][NextWaves]_vars

----------------------------------------------------------------------------
(* C1 *)

Ball(k) == {v \in (-k..k) \X (-k..k) \X (-k..k) : Norm(v) <= k * k}

HalfSpace(v) ==
  \/ v[1] > 0
  \/ v[1] = 0 /\ v[2] > 0
  \/ v[1] = 0 /\ v[2] = 0 /\ v[3] > 0

WaveVectors == {waves[i].K : i \in 1..Len(waves)}

\* C1: when initWaves returns, the waves are duplicate-free, exclude (0,0,0),
\* are exactly the vectors of the ball of radius ksize that lie in the half
\* space (l > 0, or l = 0 and m > 0, or l = m = 0 and n > 0), hold exactly one
\* of v and -v for every nonzero v of the ball, number half the nonzero points
\* of the ball (3 for ksize = 1, none for ksize = 0), with zero amplitudes, and
\* are what the initWaves operator computes.
C1_WaveSet ==
  pc = "ret" =>
    LET k == ewald.ksize
    IN  /\ \A i, j \in 1..Len(waves) : waves[i].K = waves[j].K => i = j
        /\ <<0, 0, 0>> \notin WaveVectors
        /\ WaveVectors = {v \in Ball(k) : HalfSpace(v)}
        /\ \A v \in Ball(k) \ {<<0, 0, 0>>} :
             (v \in WaveVectors) # (Vec3Neg(v) \in WaveVectors)
        /\ 2 * Len(waves) = Cardinality(Ball(k)) - 1
        /\ (k = 0 => waves = <<>>)
        /\ (k = 1 => Len(waves) = 3)
        /\ \A i \in 1..Len(waves) : waves[i].REAL = Zero /\ waves[i].IMAG = Zero
        /\ waves = initWaves(k)

C1_Witness == pc = "ret" /\ ewald.ksize = 2 /\ Len(waves) = 16

----------------------------------------------------------------------------
(* Bodies and cells (types.h Body, Cell as ewald2.h uses them) *)

\* TRG = 0
ZeroTRG == <<Zero, Zero, Zero, Zero>>

\* a body: position X, strength SRC, accumulator TRG, and the numbering IBODY,
\* ICELL and WEIGHT that initTarget sets
Body(X, q) ==
  [X |-> X, SRC |-> q, TRG |-> ZeroTRG, IBODY |-> 0, ICELL |-> 0, WEIGHT |-> 0]

\* a cell: center X, radius R, bodies BODY .. BODY+NBODY-1 (indices of bodies),
\* children C0+ICHILD .. C0+ICHILD+NCHILD-1 (C0 is element 1 of the sequence)
Cell(X, R, b, nb, ic, nc) ==
  [X |-> X, R |-> R, BODY |-> b, NBODY |-> nb, ICHILD |-> ic, NCHILD |-> nc]

\* the body indices a cell ranges over, in loop order
CellBodies(C) == [k \in 1..C.NBODY |-> C.BODY + k - 1]

----------------------------------------------------------------------------
(* Ewald2::P2P *)

\* mutant of P2PdX: a sign slip, Bi->X + Bj->X
P2PdXSum(Bi, Bj, Xperiodic) ==
  <<Bi.X[1] + Bj.X[1] - Xperiodic[1], Bi.X[2] + Bj.X[2] - Xperiodic[2],
    Bi.X[3] + Bj.X[3] - Xperiodic[3]>>

\* vec3 dX = Bi->X - Bj->X - Xperiodic;
P2PdX(Bi, Bj, Xperiodic) == Vec3Sub(Vec3Sub(Bi.X, Bj.X), Xperiodic)

\* mutant of P2PInRange: the cutoff itself is let in
P2PInRangeClosed(R2, cutoff) == 0 < R2 /\ R2 <= cutoff * cutoff

\* if (0 < R2 && R2 < cutoff * cutoff)
P2PInRange(R2, cutoff) == 0 < R2 /\ R2 < cutoff * cutoff

\* The four terms of lines 102-105 for one pair.  With Rs = sqrt(R2)*alpha:
\*   pot:   Bj->SRC * erfc(Rs) * invRs * alpha                   = c * P(r2)
\*   frc d: -(dX[d] * dtmp), dtmp = Bj->SRC * (M_2_SQRTPI * exp(-R2s) * invR2s
\*          + erfc(Rs) * invR3s) * alpha^3                       = c * G(r2)
\* P and G are positive functions of r2 alone.
P2PTerms(Bi, Bj, Xperiodic) ==
  LET dX == P2PdX(Bi, Bj, Xperiodic)
      R2 == Norm(dX)
  IN  << [op |-> "pot", c |-> Bj.SRC, r2 |-> R2],
         [op |-> "frc", c |-> -(dX[1] * Bj.SRC), r2 |-> R2],
         [op |-> "frc", c |-> -(dX[2] * Bj.SRC), r2 |-> R2],
         [op |-> "frc", c |-> -(dX[3] * Bj.SRC), r2 |-> R2] >>

\* body of the inner loop: Bi->TRG after the pair (Bi, Bj), TRG before it
P2PPair(TRG, Bi, Bj, Xperiodic, cutoff) ==
  LET R2 == Norm(P2PdX(Bi, Bj, Xperiodic))
      t  == P2PTerms(Bi, Bj, Xperiodic)
  IN  IF P2PInRange(R2, cutoff)
        THEN [d \in 1..4 |-> Acc(TRG[d], t[d])]
        ELSE TRG

\* the pairs <<Bi, Bj>> in the order the two loops visit them
P2PPairs(Ci, Cj) ==
  [k \in 1..(Ci.NBODY * Cj.NBODY) |->
     <<Ci.BODY + ((k - 1) \div Cj.NBODY), Cj.BODY + ((k - 1) % Cj.NBODY)>>]

RECURSIVE P2PLoop(_, _, _, _, _)
\* the bodies after the first k pairs of prs have been processed in order
\* (P2P writes TRG only, so X and SRC are read from bs)
P2PLoop(bs, prs, k, Xperiodic, cutoff) ==
  IF k = 0 THEN bs
  ELSE [P2PLoop(bs, prs, k - 1, Xperiodic, cutoff) EXCEPT
          ![prs[k][1]].TRG =
             P2PPair(@, bs[prs[k][1]], bs[prs[k][2]], Xperiodic, cutoff)]

\* void P2P(C_iter Ci, C_iter Cj, vec3 Xperiodic) const
P2P(bs, Ci, Cj, Xperiodic, cutoff) ==
  P2PLoop(bs, P2PPairs(Ci, Cj), Ci.NBODY * Cj.NBODY, Xperiodic, cutoff)

\* observation: for each pair, in order, Bi->TRG before and after the pair
P2PTrace(bs, Ci, Cj, Xperiodic, cutoff) ==
  LET prs == P2PPairs(Ci, Cj)
  IN  [k \in 1..(Ci.NBODY * Cj.NBODY) |->
         LET before == P2PLoop(bs, prs, k - 1, Xperiodic, cutoff)
             after  == P2PLoop(bs, prs, k, Xperiodic, cutoff)
             i == prs[k][1]
             j == prs[k][2]
         IN  [i |-> i, j |-> j, Xp |-> Xperiodic,
              before |-> before[i].TRG, after |-> after[i].TRG,
              others |-> \A b \in 1..Len(bs) : b # i => after[b] = before[b]]]

----------------------------------------------------------------------------
(* Specification SpecP2P: calls of the P2P kernel on pairs of leaf cells *)

\* largest x coordinate of a body in SpecP2P
MaxCoord == 3

\* number of P2P calls made in one behaviour of SpecP2P
MaxP2PCalls == 2

P2PCycle == <<4, 4, 4>>

P2PStrengths == {-1, 1, 2}

P2PPositions == {<<x, y, 0>> : x \in 0..MaxCoord, y \in 0..1}

\* a root over three bodies and two leaves: body 1, and bodies 2..3
P2PCells ==
  << Cell(<<2, 2, 2>>, 4, 1, 3, 1, 2),
     Cell(<<1, 1, 1>>, 3, 1, 1, 0, 0),
     Cell(<<3, 1, 1>>, 3, 2, 2, 0, 0) >>

InitP2PSpec ==
  /\ ewald \in [ksize : {0}, cutoff : {1, 2}, cycle : {P2PCycle}]
  /\ bodies \in {<<Body(<<x1, 0, 0>>, q1), Body(p2, q2), Body(<<2, 1, 0>>, 1)>> :
                   x1 \in 0..MaxCoord, q1 \in {1, 2},
                   p2 \in P2PPositions, q2 \in P2PStrengths}
  /\ cells = P2PCells /\ jcells = P2PCells
  /\ waves = <<>> /\ Ibodies = <<>> /\ Jbodies = <<>>
  /\ pc = "idle"
  /\ loc = <<>>
  /\ hist = <<>>

\* one call P2P(Ci, Cj, Xperiodic) on leaf cells, as Neighbor makes it
P2PCall ==
  /\ pc = "idle"
  /\ Len(hist) < MaxP2PCalls
  /\ \E ci \in 2..3, cj \in 2..3, Xp \in {<<0, 0, 0>>, <<ewald.cycle[1], 0, 0>>} :
       /\ bodies' = P2P(bodies, cells[ci], jcells[cj], Xp, ewald.cutoff)
       /\ hist' = Append(hist, P2PTrace(bodies, cells[ci], jcells[cj], Xp,
                                        ewald.cutoff))
  /\ UNCHANGED <<ewald, cells, jcells, waves, Ibodies, Jbodies, pc, loc>>

NextP2P == P2PCall

SpecP2P == InitP2PSpec /\ [][NextP2P]_vars

----------------------------------------------------------------------------
(* C2, C3 *)

\* every pair record logged so far
PairLog == UNION {{hist[c][k] : k \in 1..Len(hist[c])} : c \in 1..Len(hist)}

\* the separation of a logged pair as the claims state it: x_i - x_j - Xperiodic
PairR2(p) == Norm(Vec3Sub(Vec3Sub(bodies[p.i].X, bodies[p.j].X), p.Xp))

\* the coefficient of the term a pair added to component d (0: nothing added)
AddedCoef(p, d) ==
  IF Len(p.after[d]) = Len(p.before[d]) THEN 0
  ELSE p.after[d][Len(p.after[d])].c

\* what the claim expects Bi->TRG to be after an accepted pair
C2_Accumulated(p) ==
  LET dX == Vec3Sub(Vec3Sub(bodies[p.i].X, bodies[p.j].X), p.Xp)
      q  == bodies[p.j].SRC
      F(d) == IF dX[d] * q = 0 THEN p.before[d + 1]
              ELSE Append(p.before[d + 1],
                          [op |-> "frc", c |-> -(dX[d] * q), r2 |-> Norm(dX)])
  IN  << IF q = 0 THEN p.before[1]
         ELSE Append(p.before[1], [op |-> "pot", c |-> q, r2 |-> Norm(dX)]),
         F(1), F(2), F(3) >>

\* C2: for every pair (i, j) P2P visits, with R2 = |x_i - x_j - Xperiodic|^2:
\* if R2 = 0 or R2 >= cutoff^2 (R2 = cutoff^2 included) all four components of
\* i's accumulator stay as they were, and if 0 < R2 < cutoff^2 the pair's
\* potential and force terms are added to i's accumulator; no other body's
\* accumulator changes in that step.
C2_CutoffSkip ==
  \A p \in PairLog :
    LET R2 == PairR2(p)
        c2 == ewald.cutoff * ewald.cutoff
    IN  /\ (R2 = 0 \/ R2 >= c2) => p.after = p.before
        /\ (0 < R2 /\ R2 < c2) => p.after = C2_Accumulated(p) /\ p.after # p.before
        /\ p.others

C2_Witness ==
  /\ \E p \in PairLog : PairR2(p) = ewald.cutoff * ewald.cutoff /\ p.i # p.j
  /\ \E p \in PairLog : PairR2(p) = 0 /\ p.i = p.j
  /\ \E p \in PairLog : PairR2(p) > ewald.cutoff * ewald.cutoff
  /\ \E p \in PairLog : 0 < PairR2(p) /\ PairR2(p) < ewald.cutoff * ewald.cutoff
                        /\ p.Xp # <<0, 0, 0>> /\ AddedCoef(p, 2) # 0

\* two logged pairs that are each other's reverse, with zero periodic offset
\* and a separation inside the cutoff
Reverse(p, q) ==
  /\ p.i = q.j /\ p.j = q.i /\ p.i # p.j
  /\ p.Xp = <<0, 0, 0>> /\ q.Xp = <<0, 0, 0>>
  /\ 0 < PairR2(p) /\ PairR2(p) < ewald.cutoff * ewald.cutoff

Antisymmetric(p, q) ==
  /\ \A d \in 2..4 : AddedCoef(p, d) = -AddedCoef(q, d)
  /\ AddedCoef(p, 1) = AddedCoef(q, 1)
  /\ AddedCoef(p, 1) # 0

\* C3 as stated: for any two particles with any source strengths, zero offset
\* and 0 < R2 < cutoff^2, the force added to i because of j is the negation of
\* the force added to j because of i, and the potential added is the same.
C3_AnyStrengths ==
  \A p, q \in PairLog : Reverse(p, q) => Antisymmetric(p, q)

\* C3 amended: the same for two particles of equal source strength.
C3_EqualStrengths ==
  \A p, q \in PairLog :
    Reverse(p, q) /\ bodies[p.i].SRC = bodies[p.j].SRC => Antisymmetric(p, q)

C3_Witness ==
  \E p, q \in PairLog :
    /\ Reverse(p, q) /\ bodies[p.i].SRC = bodies[p.j].SRC
    /\ AddedCoef(p, 2) # 0 /\ AddedCoef(p, 3) # 0

----------------------------------------------------------------------------
(* Ewald2::getDipole, Ewald2::dipoleCorrection *)

RECURSIVE DipoleSum(_, _, _)
\* dipole += (B->X - X0) * std::real(complex_t(B->SRC)), over bodies k..end
DipoleSum(bs, X0, k) ==
  IF k > Len(bs) THEN <<0, 0, 0>>
  ELSE LET rest == DipoleSum(bs, X0, k + 1)
           dX   == Vec3Sub(bs[k].X, X0)
       IN  <<dX[1] * bs[k].SRC + rest[1], dX[2] * bs[k].SRC + rest[2],
             dX[3] * bs[k].SRC + rest[3]>>

\* vec3 getDipole(Bodies & bodies, vec3 X0)
getDipole(bs, X0) == DipoleSum(bs, X0, 1)

\* coef * norm(dipole) / numBodies / B->SRC, negated (the term of TRG[0] -= ...),
\* with coef = 4 pi / (3 cycle[0] cycle[1] cycle[2]) > 0 kept symbolic.
\* IEEE division: 0/0 is NaN, x/0 is an infinity for x # 0.
DipolePotTerm(dipole, numBodies, q) ==
  LET N == Norm(dipole)
  IN  IF numBodies = 0 \/ q = 0
        THEN [op |-> IF N = 0 THEN "NaN" ELSE "Inf", c |-> 1, den |-> 0]
        ELSE [op |-> "dipPot", c |-> -N, den |-> numBodies * q]

\* coef * dipole[d], negated (the term of TRG[d+1] -= ...)
DipoleForceTerm(dipole, d) == [op |-> "dipFrc", c |-> -dipole[d], den |-> 1]

\* body of the loop of dipoleCorrection for one body
DipoleCorrectBody(B, dipole, numBodies) ==
  [B EXCEPT !.TRG =
     << Acc(B.TRG[1], DipolePotTerm(dipole, numBodies, B.SRC)),
        Acc(B.TRG[2], DipoleForceTerm(dipole, 1)),
        Acc(B.TRG[3], DipoleForceTerm(dipole, 2)),
        Acc(B.TRG[4], DipoleForceTerm(dipole, 3)) >>]

\* void dipoleCorrection(Bodies & bodies, vec3 dipole, int numBodies, vec3 cycle)
dipoleCorrection(bs, dipole, numBodies, cycle) ==
  [k \in 1..Len(bs) |-> DipoleCorrectBody(bs[k], dipole, numBodies)]

----------------------------------------------------------------------------
(* Specification SpecDipole: getDipole, then dipoleCorrection with its result *)

\* number of bodies in SpecDipole
NumDipoleBodies == 4

DipolePositions == {<<-1, 0, 0>>, <<0, 0, 0>>, <<1, 0, 0>>, <<0, 1, 0>>}

DipoleStrengths == {-1, 0, 1}

DipoleOrigins == {<<0, 0, 0>>, <<1, 2, 0>>}

InitDipoleSpec ==
  /\ ewald \in [ksize : {0}, cutoff : {1}, cycle : {<<8, 8, 8>>}]
  /\ \E Xs \in [1..NumDipoleBodies -> DipolePositions],
        qs \in [1..NumDipoleBodies -> DipoleStrengths] :
       bodies = [k \in 1..NumDipoleBodies |-> Body(Xs[k], qs[k])]
  /\ cells = <<>> /\ jcells = <<>>
  /\ waves = <<>> /\ Ibodies = <<>> /\ Jbodies = <<>>
  /\ pc = "idle"
  /\ loc \in [X0 : DipoleOrigins, dipole : {<<0, 0, 0>>}]
  /\ hist = <<>>

DipoleFrame == UNCHANGED <<ewald, cells, jcells, waves, Ibodies, Jbodies>>

\* vec3 dipole = getDipole(bodies, X0)
GetDipoleCall ==
  /\ pc = "idle"
  /\ loc' = [loc EXCEPT !.dipole = getDipole(bodies, loc.X0)]
  /\ pc' = "dipole"
  /\ UNCHANGED <<bodies, hist>>
  /\ DipoleFrame

\* dipoleCorrection(bodies, dipole, bodies.size(), cycle)
DipoleCorrectionCall ==
  /\ pc = "dipole"
  /\ bodies' = dipoleCorrection(bodies, loc.dipole, Len(bodies), ewald.cycle)
  /\ hist' = Append(hist, bodies)
  /\ pc' = "corrected"
  /\ UNCHANGED loc
  /\ DipoleFrame

NextDipole == GetDipoleCall \/ DipoleCorrectionCall

SpecDipole == InitDipoleSpec /\ [][NextDipole]_vars

----------------------------------------------------------------------------
(* C4 *)

\* the strengths sum to zero
RECURSIVE TotalCharge(_, _)
TotalCharge(bs, k) == IF k > Len(bs) THEN 0 ELSE bs[k].SRC + TotalCharge(bs, k + 1)

\* how many bodies sit at X with strength q
CountAt(bs, X, q) == Cardinality({k \in 1..Len(bs) : bs[k].X = X /\ bs[k].SRC = q})

\* inversion through the center c (given doubled, c2 = 2c, so that half-integer
\* centers are covered) maps the particle set onto itself
Centrosymmetric(bs, c2) ==
  \A k \in 1..Len(bs) :
    CountAt(bs, bs[k].X, bs[k].SRC) = CountAt(bs, Vec3Sub(c2, bs[k].X), bs[k].SRC)

DoubledCenters == {<<x, y, 0>> : x \in -2..2, y \in 0..2}

NeutralCentrosymmetric ==
  /\ TotalCharge(bodies, 1) = 0
  /\ \E c2 \in DoubledCenters : Centrosymmetric(bodies, c2)

\* C4 as stated: for every charge-neutral centrosymmetric particle set and
\* every origin X0, getDipole returns the zero vector and dipoleCorrection
\* called with it leaves every body's accumulator as it was.
C4_DipoleNoOp ==
  NeutralCentrosymmetric =>
    /\ pc \in {"dipole", "corrected"} => loc.dipole = <<0, 0, 0>>
    /\ pc = "corrected" => \A k \in 1..Len(bodies) : bodies[k].TRG = hist[1][k].TRG

\* the part of C4 the code keeps: the dipole is zero, and the correction is a
\* no-op on every body of nonzero strength
C4_NonzeroStrengths ==
  NeutralCentrosymmetric =>
    /\ pc \in {"dipole", "corrected"} => loc.dipole = <<0, 0, 0>>
    /\ pc = "corrected" =>
         \A k \in 1..Len(bodies) :
           bodies[k].SRC # 0 => bodies[k].TRG = hist[1][k].TRG

----------------------------------------------------------------------------
(* wrap (declared outside ewald2.h; modelled from the specification, 4.5: *)
(* "subtract the nearest integer multiple of cycle per axis so the wrapped *)
(* distance is the shortest possible")                                     *)

RECURSIVE Wrap1(_, _)
Wrap1(x, L) ==
  IF 2 * x < -L THEN Wrap1(x + L, L)
  ELSE IF 2 * x > L THEN Wrap1(x - L, L)
  ELSE x

wrap(dX, cycle) ==
  <<Wrap1(dX[1], cycle[1]), Wrap1(dX[2], cycle[2]), Wrap1(dX[3], cycle[3])>>

----------------------------------------------------------------------------
(* Ewald2::Neighbor::operator() and Ewald2::realPart *)

\* vec3 dX = Ci->X - Cj->X; wrap(dX, ewald2->cycle);
NeighborDX(Ci, Cj, cycle) == wrap(Vec3Sub(Ci.X, Cj.X), cycle)

\* vec3 Xperiodic = Ci->X - Cj->X - dX;
NeighborXperiodic(Ci, Cj, cycle) ==
  Vec3Sub(Vec3Sub(Ci.X, Cj.X), NeighborDX(Ci, Cj, cycle))

\* real_t is declared outside ewald2.h: it is float or double, told apart by
\* std::numeric_limits<real_t>::digits, the width of the significand
FloatDigits == 24
DoubleDigits == 53

\* sqrtf(3), the single-precision value nearest to the square root of 3, is
\* Sqrtf3Num / Sqrtf3Den = 1.7320507764816284 (Sqrtf3Den = 2^23)
Sqrtf3Num == 14529495
Sqrtf3Den == 8388608

RECURSIVE Pow2(_)
Pow2(k) == IF k = 0 THEN 1 ELSE 2 * Pow2(k - 1)

RECURSIVE BitLength(_)
\* the number of binary digits of v >= 0
BitLength(v) == IF v = 0 THEN 0 ELSE 1 + BitLength(v \div 2)

RECURSIVE Binade(_)
\* the exponent e of std::sqrt(n), n >= 1: 2^e <= sqrt(n) < 2^(e+1)
Binade(n) == IF n < 4 THEN 0 ELSE 1 + Binade(n \div 4)

\* the integer v >= 0 rounded to p significant binary digits, to nearest and
\* ties to even
RoundToDigits(v, p) ==
  LET b  == BitLength(v)
      sh == IF b > p THEN Pow2(b - p) ELSE 1
      q  == v \div sh
      r  == v % sh
  IN  IF 2 * r > sh \/ (2 * r = sh /\ q % 2 = 1) THEN (q + 1) * sh ELSE q * sh

\* sqrtf(3) * ewald2->cutoff in real_t of p digits, in units of 2^-23: the
\* product of the float constant and the integer cutoff, rounded to real_t
ThresholdNum(c, p) == RoundToDigits(Sqrtf3Num * c, p)

\* numbers beyond the range of the integers at hand are kept as coefficients
\* of the powers of Limb, the lowest first
Limb == 4096

\* the three limbs of a number 0 <= x < 2^31
Limbs(x) == <<x % Limb, (x \div Limb) % Limb, x \div (Limb * Limb)>>

\* v cut off at +-32768: a sum of limbs that large keeps its sign whatever the
\* lower limbs (below 2^26 in size) add
Clamp(v) ==
  CHOOSE y \in {IF x > 32768 THEN 32768 ELSE IF x < -32768 THEN -32768 ELSE x :
                  x \in {v}} : TRUE

RECURSIVE LimbSign(_, _)
\* negative, zero or positive as the number with coefficients d[k], d[k+1], ..
\* is
LimbSign(d, k) ==
  IF k > Len(d) THEN 0 ELSE Clamp(LimbSign(d, k + 1) * Limb + d[k])

\* S * 2^23 + lo in four limbs, for 0 <= lo < 2^23 and 0 <= S < 2^20
GapLimbs(S, lo) == <<lo % Limb>> \o Limbs(lo \div Limb + (Sqrtf3Den \div Limb) * S)

\* coefficient k of n * 2^48 - T^2 + B, for N and B in three limbs and T in
\* four
GapCoefficient(N, T, B, k) ==
  LET P(i, j) == IF j \in 1..4 THEN T[i] * T[j] ELSE 0
  IN  (IF k \in 5..7 THEN N[k - 4] ELSE 0)
        - (P(1, k) + P(2, k - 1) + P(3, k - 2) + P(4, k - 3))
        + (IF k \in 1..3 THEN B[k] ELSE 0)

\* T > 0 and n * 2^48 - T^2 + B <= 0 for T = S * 2^23 + lo
GapSquareBelow(n, S, lo, B) ==
  /\ S >= 0 /\ (S > 0 \/ lo > 0)
  /\ \E N \in {Limbs(n)}, T \in {GapLimbs(S, lo)}, L \in {Limbs(B)} :
       \E d \in {<<GapCoefficient(N, T, L, 1), GapCoefficient(N, T, L, 2),
                   GapCoefficient(N, T, L, 3), GapCoefficient(N, T, L, 4),
                   GapCoefficient(N, T, L, 5), GapCoefficient(N, T, L, 6),
                   GapCoefficient(N, T, L, 7)>>} :
         LimbSign(d, 1) <= 0

\* sqrt(n) < M for g >= 0: 2^24 M = 2 (t + r) - w with t = S * 2^23 + lo,
\* w = 2^g and r = (-t) mod w
GapBelowCoarse(n, S, lo, w) ==
  \E Y \in {2 * lo + 2 * ((w - (lo % w)) % w) - w + Sqrtf3Den} :
    \E S2 \in {2 * S + Y \div Sqrtf3Den - 1}, lo2 \in {Y % Sqrtf3Den} :
      GapSquareBelow(n, S2, lo2, 1)

\* the ceiling of (S * 2^23 + lo) / 2^m
GapCeiling(S, lo, m) ==
  IF m <= 23
    THEN S * Pow2(23 - m) + lo \div Pow2(m) + (IF lo % Pow2(m) = 0 THEN 0 ELSE 1)
    ELSE S \div Pow2(m - 23)
           + (IF S % Pow2(m - 23) = 0 /\ lo = 0 THEN 0 ELSE 1)

\* sqrt(n) < M for g < 0, m = -g: t^2 - n 2^46 >= ceiling(t / 2^m), four
\* times over
GapBelowFine(n, S, lo, m) ==
  \E B \in {4 * GapCeiling(S, lo, m)} :
    \E S2 \in {2 * S + (2 * lo) \div Sqrtf3Den}, lo2 \in {(2 * lo) % Sqrtf3Den} :
      GapSquareBelow(n, S2, lo2, B)

\* real_t R = std::sqrt(n); R - Ci->R - Cj->R < sqrtf(3) * c, evaluated in
\* real_t of p digits, for integers n >= 0 (the value of norm(dX), exact in
\* real_t below 2^p), radii of sum s >= 0 and c >= 0.
\* R is sqrt(n) rounded to nearest on the grid of spacing u = 2^(e-p+1), e the
\* binade of sqrt(n). The two subtractions are exact wherever the comparison
\* is not already settled by sign, so the test is R < T with T = s +
\* fl(sqrtf(3) * c) = t / 2^23, t = S * 2^23 + lo. Rounding is monotone and
\* sqrt(n) is on no midpoint of the grid, so R < T is sqrt(n) < M, M the
\* midpoint next below the first grid point >= T:
\*   g = e + 24 - p >= 0:  2^24 M = 2 (t + r) - 2^g, r = (-t) mod 2^g;
\*   g < 0:                2^24 M = 2 t - 2^g, and sqrt(n) < M is
\*                         t^2 - n 2^46 >= ceiling(t / 2^-g).
SqrtGapBelow(n, s, c, p) ==
  \E nn \in {n}, a \in {ThresholdNum(c, p)} :
    \E S \in {s + a \div Sqrtf3Den}, lo \in {a % Sqrtf3Den} :
      IF nn = 0 THEN S > 0 \/ lo > 0
      ELSE \E g \in {Binade(nn) + 24 - p} :
             IF g >= 0 THEN \E w \in {Pow2(g)} : GapBelowCoarse(nn, S, lo, w)
             ELSE GapBelowFine(nn, S, lo, -g)

\* mutant of NeighborClose: the source cell's radius is left out
NeighborCloseNoRj(Ci, Cj, E) ==
  SqrtGapBelow(Norm(NeighborDX(Ci, Cj, E.cycle)), Ci.R, E.cutoff, E.digits)

\* real_t R = std::sqrt(norm(dX)); if (R - Ci->R - Cj->R < sqrtf(3) * cutoff)
NeighborClose(Ci, Cj, E) ==
  SqrtGapBelow(Norm(NeighborDX(Ci, Cj, E.cycle)), Ci.R + Cj.R, E.cutoff, E.digits)

\* mutant of NeighborChildren: the last child is not visited
NeighborChildrenButLast(Cj) ==
  [k \in 1..(IF Cj.NCHILD = 0 THEN 0 ELSE Cj.NCHILD - 1) |-> Cj.ICHILD + k]

\* for (C_iter CC=C0+Cj->ICHILD; CC!=C0+Cj->ICHILD+Cj->NCHILD; CC++):
\* the children as indices of the cell sequence, whose element 1 is C0
NeighborChildren(Cj) == [k \in 1..Cj.NCHILD |-> Cj.ICHILD + k]

\* the bodies after one invocation of operator() for (Ci, Cj), its own
\* recursive calls left out: P2P when the cells are close and Cj is a leaf
NeighborBodies(bs, Ci, Cj, E) ==
  IF NeighborClose(Ci, Cj, E) /\ Cj.NCHILD = 0
    THEN P2P(bs, Ci, Cj, NeighborXperiodic(Ci, Cj, E.cycle), E.cutoff)
    ELSE bs

\* the recursive calls one invocation makes, in order
NeighborCalls(Ci, Cj, E) ==
  IF NeighborClose(Ci, Cj, E) THEN NeighborChildren(Cj) ELSE <<>>

RECURSIVE NeighborWalk(_, _, _, _, _)
\* the recursion of operator(), depth first: stack holds the source cells
\* still to be called, the next one first
NeighborWalk(bs, Ci, stack, jcs, E) ==
  IF stack = <<>> THEN bs
  ELSE LET Cj == jcs[Head(stack)]
           nb == NeighborBodies(bs, Ci, Cj, E)
           st == NeighborCalls(Ci, Cj, E) \o Tail(stack)
       IN  IF nb = bs THEN NeighborWalk(bs, Ci, st, jcs, E)
           ELSE NeighborWalk(nb, Ci, st, jcs, E)

\* mutant of LeafTarget: the traversal is started for every target cell
LeafTargetAny(Ci) == TRUE

\* if (Ci->NCHILD == 0)
LeafTarget(Ci) == Ci.NCHILD = 0

RECURSIVE realPartLoop(_, _, _, _, _)
\* for (C_iter Ci=cells.begin(); Ci!=cells.end(); Ci++), from cell ci on
realPartLoop(bs, ci, cs, jcs, E) ==
  IF ci > Len(cs) THEN bs
  ELSE IF LeafTarget(cs[ci])
    THEN realPartLoop(NeighborWalk(bs, cs[ci], <<1>>, jcs, E), ci + 1, cs, jcs, E)
  ELSE realPartLoop(bs, ci + 1, cs, jcs, E)

\* void realPart(Cells & cells, Cells & jcells)
realPart(bs, cs, jcs, E) == realPartLoop(bs, 1, cs, jcs, E)

----------------------------------------------------------------------------
(* Specification SpecReal: realPart, one invocation of Neighbor per step *)

\* periodic images looked at on each side, per axis, in C9 and C10
MaxImage == 2

RealCycle == <<16, 16, 16>>

\* a root over two halves; the right half has a quarter split once more
LineTreeDeep ==
  << Cell(<<8, 8, 8>>, 8, 1, 5, 1, 2),
     Cell(<<4, 8, 8>>, 4, 1, 2, 3, 2),
     Cell(<<12, 8, 8>>, 4, 3, 3, 5, 2),
     Cell(<<2, 8, 8>>, 2, 1, 1, 0, 0),
     Cell(<<6, 8, 8>>, 2, 2, 1, 0, 0),
     Cell(<<10, 8, 8>>, 2, 3, 2, 7, 2),
     Cell(<<14, 8, 8>>, 2, 5, 1, 0, 0),
     Cell(<<9, 8, 8>>, 1, 3, 1, 0, 0),
     Cell(<<11, 8, 8>>, 1, 4, 1, 0, 0) >>

\* the same bodies in a tree whose root is itself a leaf
LineTreeFlat == << Cell(<<8, 8, 8>>, 8, 1, 5, 0, 0) >>

LineBodies ==
  {<< Body(<<x1, 8, 8>>, 1), Body(<<x2, 8, 8>>, -1), Body(<<x3, 8, 8>>, 2),
      Body(<<x4, 8, 8>>, 1), Body(<<x5, 8, 8>>, -2) >> :
     x1 \in {0, 3}, x2 \in {5, 8}, x3 \in {8, 10}, x4 \in {11, 12}, x5 \in {13, 15}}

\* three leaves off the axes: two in opposite corners of the box, one mid-box
DiagTree ==
  << Cell(<<8, 8, 8>>, 12, 1, 4, 1, 3),
     Cell(<<2, 2, 8>>, 3, 1, 2, 0, 0),
     Cell(<<14, 14, 8>>, 3, 3, 1, 0, 0),
     Cell(<<8, 9, 8>>, 3, 4, 1, 0, 0) >>

DiagBodies ==
  {<< Body(p1, 1), Body(<<3, 2, 8>>, -1), Body(p3, 2), Body(p4, -2) >> :
     p1 \in {<<0, 0, 8>>, <<1, 1, 8>>},
     p3 \in {<<15, 15, 8>>, <<14, 13, 8>>},
     p4 \in {<<8, 9, 8>>, <<6, 8, 8>>}}

\* a wide box: the target leaf and the source leaf WideSource[2] are
\* (1505, 1527, 1568) apart with radii 1325 and 1326, so that with cutoff 3
\* the gap sqrt(7055378) - 2651 lies between 3 sqrtf(3) and 3 sqrt(3), and in
\* single precision sqrt rounds down below the threshold; the source leaf
\* WideSource[3] is next to the target body
WideCycle == <<6000, 6000, 6000>>

WideTarget == << Cell(<<3505, 3527, 3568>>, 1325, 1, 1, 0, 0) >>

WideSource ==
  << Cell(<<3000, 3000, 3000>>, 3000, 2, 2, 1, 2),
     Cell(<<2000, 2000, 2000>>, 1326, 2, 1, 0, 0),
     Cell(<<3507, 3527, 3568>>, 1, 3, 1, 0, 0) >>

WideBodies ==
  << Body(<<3505, 3527, 3568>>, 1), Body(<<2000, 2000, 2000>>, -1),
     Body(<<3507, 3527, 3568>>, 2) >>

\* a second wide box: the target leaf and the source leaf FarSource[2] are
\* (2202, 2253, 2275) apart with radii 1939 and 1940, so that with cutoff 4
\* the gap sqrt(15100438) - 3879 = 6.92820314 lies between 4 sqrtf(3) =
\* 6.92820311 and 4 sqrt(3) = 6.92820323 and, in single precision, sqrt rounds
\* up past the threshold
FarCycle == <<8000, 8000, 8000>>

FarTarget == << Cell(<<4202, 4253, 4275>>, 1939, 1, 1, 0, 0) >>

FarSource ==
  << Cell(<<4000, 4000, 4000>>, 4000, 2, 2, 1, 2),
     Cell(<<2000, 2000, 2000>>, 1940, 2, 1, 0, 0),
     Cell(<<4204, 4253, 4275>>, 1, 3, 1, 0, 0) >>

FarBodies ==
  << Body(<<4202, 4253, 4275>>, 1), Body(<<2000, 2000, 2000>>, -1),
     Body(<<4204, 4253, 4275>>, 2) >>

Scenes ==
  [bodies : LineBodies, cells : {LineTreeDeep, LineTreeFlat},
   jcells : {LineTreeDeep, LineTreeFlat}, cycle : {RealCycle}, cutoff : {1, 2}]
  \cup [bodies : DiagBodies, cells : {DiagTree}, jcells : {DiagTree},
        cycle : {RealCycle}, cutoff : {1, 2}]
  \cup [bodies : {WideBodies}, cells : {WideTarget}, jcells : {WideSource},
        cycle : {WideCycle}, cutoff : {2, 3}]
  \cup [bodies : {FarBodies}, cells : {FarTarget}, jcells : {FarSource},
        cycle : {FarCycle}, cutoff : {3, 4}]

EmptyRealLog == [starts |-> <<>>, visits |-> <<>>, p2p |-> <<>>]

InitRealSpec ==
  /\ \E sc \in Scenes, p \in {FloatDigits, DoubleDigits} :
       /\ ewald = [ksize |-> 0, cutoff |-> sc.cutoff, cycle |-> sc.cycle,
                   digits |-> p]
       /\ bodies = sc.bodies /\ cells = sc.cells /\ jcells = sc.jcells
  /\ waves = <<>> /\ Ibodies = <<>> /\ Jbodies = <<>>
  /\ pc = "idle"
  /\ loc = [ci |-> 0, stack |-> <<>>]
  /\ hist = EmptyRealLog

RealFrame == UNCHANGED <<ewald, cells, jcells, waves, Ibodies, Jbodies>>

\* C_iter Cj = jcells.begin(); for (C_iter Ci=cells.begin(); ...
RP_Enter ==
  /\ pc = "idle"
  /\ loc' = [ci |-> 1, stack |-> <<>>]
  /\ pc' = "loop"
  /\ UNCHANGED <<bodies, hist>>
  /\ RealFrame

\* one turn of the loop over target cells: a leaf starts a traversal at the
\* source root, any other cell is passed over
RP_Loop ==
  /\ pc = "loop"
  /\ IF loc.ci > Len(cells)
       THEN pc' = "done" /\ UNCHANGED <<loc, hist>>
       ELSE IF LeafTarget(cells[loc.ci])
         THEN /\ loc' = [loc EXCEPT !.stack = <<1>>]
              /\ hist' = [hist EXCEPT !.starts = Append(@, loc.ci)]
              /\ pc' = "walk"
         ELSE /\ loc' = [loc EXCEPT !.ci = loc.ci + 1]
              /\ UNCHANGED <<pc, hist>>
  /\ UNCHANGED bodies
  /\ RealFrame

\* one invocation of Neighbor::operator() for the target leaf and the next
\* source cell of the recursion
RP_Neighbor ==
  /\ pc = "walk" /\ loc.stack # <<>>
  /\ LET Ci == cells[loc.ci]
         cj == Head(loc.stack)
         Cj == jcells[cj]
         close == NeighborClose(Ci, Cj, ewald)
         Xp == NeighborXperiodic(Ci, Cj, ewald.cycle)
         called == close /\ Cj.NCHILD = 0
     IN  /\ bodies' = NeighborBodies(bodies, Ci, Cj, ewald)
         /\ loc' = [loc EXCEPT !.stack = NeighborCalls(Ci, Cj, ewald) \o Tail(@)]
         /\ hist' = [hist EXCEPT
              !.visits = Append(@, [ci |-> loc.ci, cj |-> cj, close |-> close]),
              !.p2p = IF called
                        THEN Append(@, [ci |-> loc.ci, cj |-> cj, Xp |-> Xp])
                        ELSE @]
  /\ UNCHANGED pc
  /\ RealFrame

\* the traversal of this target leaf has returned: next target cell
RP_Return ==
  /\ pc = "walk" /\ loc.stack = <<>>
  /\ loc' = [loc EXCEPT !.ci = loc.ci + 1]
  /\ pc' = "loop"
  /\ UNCHANGED <<bodies, hist>>
  /\ RealFrame

NextReal == RP_Enter \/ RP_Loop \/ RP_Neighbor \/ RP_Return

\* realPart is one sequential call: a step that can be taken is taken
SpecReal == InitRealSpec /\ [][NextReal]_vars /\ WF_vars(NextReal)

----------------------------------------------------------------------------
(* C7, C9, C10 *)

IsLeaf(C) == C.NCHILD = 0

\* the children of cell p of a tree, as the data model gives them: NCHILD
\* cells from offset ICHILD after the first cell
ChildSet(cs, p) == {cs[p].ICHILD + k : k \in 1..cs[p].NCHILD}

RECURSIVE AncestorsOrSelf(_, _)
AncestorsOrSelf(cs, c) ==
  LET ps == {p \in 1..Len(cs) : c \in ChildSet(cs, p)}
  IN  {c} \cup UNION {AncestorsOrSelf(cs, p) : p \in ps}

RECURSIVE OwnedBodies(_, _)
\* the bodies a cell transitively owns: those of the leaves below it
OwnedBodies(cs, c) ==
  IF IsLeaf(cs[c]) THEN {cs[c].BODY + k - 1 : k \in 1..cs[c].NBODY}
  ELSE UNION {OwnedBodies(cs, d) : d \in ChildSet(cs, c)}

\* a^2 < 3 b^2 for 0 <= a, b < 2^31, limb by limb
SquareBelowThrice(a, b) ==
  \E A \in {Limbs(a)}, B \in {Limbs(b)} :
    \E d \in {[k \in 1..5 |->
                 LET Q(i) == IF k + 1 - i \in 1..3
                               THEN A[i] * A[k + 1 - i] - 3 * B[i] * B[k + 1 - i]
                               ELSE 0
                 IN  Q(1) + Q(2) + Q(3)]} :
      LimbSign(d, 1) < 0

\* the closeness test as the claims word it: wrapped center distance - Ci.R -
\* Cj.R < sqrt(3) * cutoff, i.e. |d|^2 < (s + sqrt(3) c)^2 with s = Ci.R + Cj.R:
\* n - s^2 - 3 c^2 is negative or its square is below 3 (2 s c)^2
PassesTest(Ci, Cj) ==
  \E n \in {Norm(wrap(Vec3Sub(Ci.X, Cj.X), ewald.cycle))}, s \in {Ci.R + Cj.R},
     c \in {ewald.cutoff} :
    \/ n < s * s + 3 * c * c
    \/ SquareBelowThrice(n - s * s - 3 * c * c, 2 * s * c)

\* the closeness test as the code evaluates it: sqrt(norm(dX)) - Ci.R - Cj.R <
\* sqrtf(3) * cutoff in the arithmetic of real_t
PassesTestSingle(Ci, Cj) ==
  SqrtGapBelow(Norm(wrap(Vec3Sub(Ci.X, Cj.X), ewald.cycle)), Ci.R + Cj.R,
               ewald.cutoff, ewald.digits)

StartsOf(ci) == {k \in 1..Len(hist.starts) : hist.starts[k] = ci}

VisitsOf(ci, cj) ==
  {k \in 1..Len(hist.visits) : hist.visits[k].ci = ci /\ hist.visits[k].cj = cj}

CallsOf(ci, cj) ==
  {k \in 1..Len(hist.p2p) : hist.p2p[k].ci = ci /\ hist.p2p[k].cj = cj}

C7_AtMostOnce(Test(_, _)) ==
  /\ \A ci \in 1..Len(cells) :
       /\ Cardinality(StartsOf(ci)) <= 1
       /\ ~IsLeaf(cells[ci]) => StartsOf(ci) = {}
  /\ \A ci \in 1..Len(cells), cj \in 1..Len(jcells) :
       /\ Cardinality(CallsOf(ci, cj)) <= 1
       /\ Cardinality(VisitsOf(ci, cj)) <= 1
       /\ VisitsOf(ci, cj) # {} =>
            \A a \in AncestorsOrSelf(jcells, cj) \ {cj} :
              Test(cells[ci], jcells[a])

C7_WhenDone(Test(_, _)) ==
  /\ \A ci \in 1..Len(cells) :
       Cardinality(StartsOf(ci)) = IF IsLeaf(cells[ci]) THEN 1 ELSE 0
  /\ \A ci \in 1..Len(cells), cj \in 1..Len(jcells) :
       LET Ci == cells[ci]
           Cj == jcells[cj]
           called == /\ IsLeaf(Ci) /\ IsLeaf(Cj)
                     /\ \A a \in AncestorsOrSelf(jcells, cj) :
                          Test(Ci, jcells[a])
       IN  /\ Cardinality(CallsOf(ci, cj)) = IF called THEN 1 ELSE 0
           /\ \A k \in CallsOf(ci, cj) :
                hist.p2p[k].Xp =
                  Vec3Sub(Vec3Sub(Ci.X, Cj.X),
                          wrap(Vec3Sub(Ci.X, Cj.X), ewald.cycle))

\* C7 as stated: realPart starts one traversal at the source root per leaf
\* target cell and none for another cell; within it P2P(Ci, Cj, offset) is
\* called at most once per source cell, exactly for the leaves Cj that pass the
\* closeness test (gap < sqrt(3) * cutoff) together with all their ancestors,
\* with offset = (Ci.X - Cj.X) - wrapped separation; no cell below a failing
\* cell is visited; realPart terminates.
C7_Traversal ==
  /\ [](C7_AtMostOnce(PassesTest) /\ (pc = "done" => C7_WhenDone(PassesTest)))
  /\ <>(pc = "done")

\* C7 with the closeness test as the code evaluates it in real_t, float or
\* double: sqrt(norm(dX)) rounded to real_t, less Ci.R, less Cj.R, below the
\* product of the single-precision constant sqrtf(3) and cutoff rounded to
\* real_t. One traversal per leaf target cell and none for another cell,
\* P2P(Ci, Cj, offset) at most once per source cell and exactly for the leaves
\* that pass that test together with all their ancestors, the offset as
\* stated, no cell below a failing cell visited, and termination.
C7_TraversalSingle ==
  /\ [](/\ C7_AtMostOnce(PassesTestSingle)
        /\ (pc = "done" => C7_WhenDone(PassesTestSingle)))
  /\ <>(pc = "done")

C7_Witness ==
  /\ pc = "done"
  /\ \E k \in 1..Len(hist.visits) :
       ~hist.visits[k].close /\ ~IsLeaf(jcells[hist.visits[k].cj])
  /\ \E k \in 1..Len(hist.visits) :
       ~hist.visits[k].close /\ IsLeaf(jcells[hist.visits[k].cj])
  /\ \E k \in 1..Len(hist.p2p) : hist.p2p[k].Xp # <<0, 0, 0>>
  /\ \E k \in 1..Len(hist.p2p) : hist.p2p[k].Xp = <<0, 0, 0>>

\* every cell's sphere encloses the bodies it transitively owns
Encloses(cs) ==
  \A c \in 1..Len(cs) : \A b \in OwnedBodies(cs, c) :
    Norm(Vec3Sub(bodies[b].X, cs[c].X)) <= cs[c].R * cs[c].R

\* the periodic images looked at: integer multiples of cycle per axis
ImageShifts ==
  {<<a * ewald.cycle[1], b * ewald.cycle[2], c * ewald.cycle[3]>> :
     a \in -MaxImage..MaxImage, b \in -MaxImage..MaxImage,
     c \in -MaxImage..MaxImage}

\* C9: with every sphere enclosing the bodies its cell owns, whenever the
\* walker prunes source cell Cj for target leaf Ci (the gap wrapped center
\* distance - Ci.R - Cj.R is then at least sqrtf(3)*cutoff as the code
\* evaluates the test), no body of Ci is closer than cutoff to a body below Cj
\* under any periodic image.
C9_PruningSound ==
  Encloses(cells) /\ Encloses(jcells) =>
    \A k \in 1..Len(hist.visits) :
      LET v == hist.visits[k]
      IN  ~v.close =>
            /\ ~PassesTestSingle(cells[v.ci], jcells[v.cj])
            /\ \A i \in OwnedBodies(cells, v.ci), j \in OwnedBodies(jcells, v.cj),
                  sh \in ImageShifts :
                 Norm(Vec3Sub(Vec3Sub(bodies[i].X, bodies[j].X), sh))
                   >= ewald.cutoff * ewald.cutoff

\* the squared minimum-image distance of two positions
MinImageR2(a, b) ==
  LET ds == {Norm(Vec3Sub(Vec3Sub(a, b), sh)) : sh \in ImageShifts}
  IN  CHOOSE m \in ds : \A d \in ds : m <= d

\* a pruned internal source cell that owns a body whose nearest image, as seen
\* from a body of the target leaf, is a shifted one
C9_Witness ==
  /\ Encloses(cells) /\ Encloses(jcells)
  /\ \E k \in 1..Len(hist.visits) :
       LET v == hist.visits[k]
       IN  /\ ~v.close /\ ~IsLeaf(jcells[v.cj])
           /\ \E i \in OwnedBodies(cells, v.ci), j \in OwnedBodies(jcells, v.cj) :
                MinImageR2(bodies[i].X, bodies[j].X)
                  < Norm(Vec3Sub(bodies[i].X, bodies[j].X))


\* the source bodies whose minimum-image distance to body i is the positive
\* r2 < cutoff^2 and whose strength is q
NearSources(i, q, r2) ==
  {j \in OwnedBodies(jcells, 1) :
     /\ bodies[j].SRC = q
     /\ MinImageR2(bodies[i].X, bodies[j].X) = r2}

\* the potential terms q * P(r2) that realPart added to body i's accumulator
PotTerms(i, q, r2) ==
  {k \in 1..Len(bodies[i].TRG[1]) :
     bodies[i].TRG[1][k].c = q /\ bodies[i].TRG[1][k].r2 = r2}

AllStrengths == {bodies[j].SRC : j \in 1..Len(bodies)}

\* C10 as stated: when realPart is done, for every body i of a leaf target
\* cell and every source body j whose minimum-image distance lies strictly
\* between 0 and cutoff, j's contribution was added to i's accumulator exactly
\* once, evaluated at the minimum-image separation: i's potential accumulator
\* holds one term q_j * P(r2) per such j, r2 the squared minimum-image distance.
C10_Complete ==
  pc = "done" =>
    \A ci \in {c \in 1..Len(cells) : IsLeaf(cells[c])} :
      \A i \in OwnedBodies(cells, ci), q \in AllStrengths,
         r2 \in 1..(ewald.cutoff * ewald.cutoff - 1) :
        Cardinality(PotTerms(i, q, r2)) = Cardinality(NearSources(i, q, r2))

\* where the code does meet C10: trees in which every target leaf and source
\* leaf satisfy Ci.R + Cj.R + cutoff <= cycle/2 on every axis
SmallLeaves ==
  \A ci \in 1..Len(cells), cj \in 1..Len(jcells), d \in 1..3 :
    IsLeaf(cells[ci]) /\ IsLeaf(jcells[cj]) =>
      2 * (cells[ci].R + jcells[cj].R + ewald.cutoff) <= ewald.cycle[d]

C10_SmallLeaves == SmallLeaves => C10_Complete

----------------------------------------------------------------------------
(* Ewald2::selfTerm *)

\* M_2_SQRTPI * B->SRC * alpha, negated (the term of TRG[0] -= ...); alpha > 0
\* is kept symbolic
SelfTermTerm(B) == [op |-> "self", c |-> -B.SRC]

\* void selfTerm(Bodies & bodies)
selfTerm(bs) ==
  [k \in 1..Len(bs) |->
     [bs[k] EXCEPT !.TRG = [@ EXCEPT ![1] = Acc(@, SelfTermTerm(bs[k]))]]]

\* void initTarget(Bodies & bodies)
initTarget(bs) ==
  [k \in 1..Len(bs) |->
     [bs[k] EXCEPT !.TRG = ZeroTRG, !.IBODY = k - 1, !.ICELL = 0, !.WEIGHT = 1]]

----------------------------------------------------------------------------
(* Ewald2::dft, the wave factor loop of wavePart, Ewald2::idft *)

\* th = sum over d of W->K[d] * Jbodies[b][d] * scale[d], scale[d] = 2 pi /
\* cycle[d]: th / (2 pi) as a fraction over cycle[0] * cycle[1] * cycle[2]
Phase(K, J, cycle) ==
  [num |-> K[1] * J[1] * cycle[2] * cycle[3] + K[2] * J[2] * cycle[1] * cycle[3]
             + K[3] * J[3] * cycle[1] * cycle[2],
   den |-> cycle[1] * cycle[2] * cycle[3]]

\* Jbodies[b][3] * std::cos(th)
DftRealTerm(W, J, cycle) ==
  [op |-> "cos", c |-> J[4], th |-> Phase(W.K, J, cycle)]

\* Jbodies[b][3] * std::sin(th); th is 0, and sin(th) with it, when each of
\* the three products W->K[d] * Jbodies[b][d] is 0
DftImagTerm(W, J, cycle) ==
  LET z == \A d \in 1..3 : W.K[d] * J[d] = 0
  IN  [op |-> "sin", c |-> IF z THEN 0 ELSE J[4], th |-> Phase(W.K, J, cycle)]

\* W->REAL = W->IMAG = 0;
DftZero(W) == [W EXCEPT !.REAL = Zero, !.IMAG = Zero]

\* body of the loop over bodies of dft, for one body
DftBody(W, J, cycle) ==
  [W EXCEPT !.REAL = Acc(@, DftRealTerm(W, J, cycle)),
            !.IMAG = Acc(@, DftImagTerm(W, J, cycle))]

RECURSIVE DftBodies(_, _, _, _)
\* one iteration of the loop over waves: the wave cleared, then bodies 1..n
DftBodies(W, Jb, n, cycle) ==
  IF n = 0 THEN DftZero(W)
  ELSE DftBody(DftBodies(W, Jb, n - 1, cycle), Jb[n], cycle)

\* void dft(Waves & waves, vec4 *Jbodies, int numBodies) const, the iterations
\* run one after the other
dft(ws, Jb, numBodies, cycle) ==
  [w \in 1..Len(ws) |-> DftBodies(ws[w], Jb, numBodies, cycle)]

\* K2 = norm(W->K * scale): K2 / (2 pi)^2 as a fraction over the squared volume
WaveK2(K, cycle) ==
  [num |-> K[1] * K[1] * cycle[2] * cycle[2] * cycle[3] * cycle[3]
             + K[2] * K[2] * cycle[1] * cycle[1] * cycle[3] * cycle[3]
             + K[3] * K[3] * cycle[1] * cycle[1] * cycle[2] * cycle[2],
   den |-> cycle[1] * cycle[1] * cycle[2] * cycle[2] * cycle[3] * cycle[3]]

\* factor = coef * std::exp(-K2 * coef2) / K2, with coef = 2 / sigma / cycle[0]
\* / cycle[1] / cycle[2] and coef2 = 1 / (4 alpha^2) for sigma, alpha and cycle
\* positive: a function of K2 alone, finite for K2 > 0 and coef / 0, the
\* positive infinity, when K2 is 0
WaveFactor(K, cycle) ==
  LET K2 == WaveK2(K, cycle)
  IN  [op |-> IF K2.num = 0 THEN "Inf" ELSE "factor", K2 |-> K2]

\* v *= f. The product is kept as written, the factor together with the value
\* it scales, and stands for the IEEE product of the two, whatever that is (a
\* number, an infinity or NaN). Only 0 times a finite factor is worked out:
\* it is 0.
Scaled(v, f) ==
  IF v = Zero /\ f.op # "Inf" THEN Zero
  ELSE <<[op |-> "mul", c |-> 1, by |-> f, of |-> v]>>

\* mutant of FilterWrites: the imaginary part is left as the transform wrote it
FilterWritesRealOnly(W, cycle) ==
  <<[field |-> "REAL", by |-> WaveFactor(W.K, cycle)]>>

\* W->REAL *= factor; W->IMAG *= factor;  the writes of one turn of the loop
FilterWrites(W, cycle) ==
  <<[field |-> "REAL", by |-> WaveFactor(W.K, cycle)],
    [field |-> "IMAG", by |-> WaveFactor(W.K, cycle)]>>

RECURSIVE ApplyScalings(_, _, _)
\* the first n writes of wr applied to W
ApplyScalings(W, wr, n) ==
  IF n = 0 THEN W
  ELSE LET V == ApplyScalings(W, wr, n - 1)
       IN  IF wr[n].field = "REAL"
             THEN [V EXCEPT !.REAL = Scaled(@, wr[n].by)]
             ELSE [V EXCEPT !.IMAG = Scaled(@, wr[n].by)]

\* one turn of the loop over waves of wavePart
FilterWave(W, cycle) ==
  ApplyScalings(W, FilterWrites(W, cycle), Len(FilterWrites(W, cycle)))

\* for (W_iter W=waves.begin(); W!=waves.end(); W++) of wavePart
filter(ws, cycle) == [w \in 1..Len(ws) |-> FilterWave(ws[w], cycle)]

\* the terms one wave adds to the private TRG of idft:
\*   TRG[0]   += W->REAL * cos(th) + W->IMAG * sin(th)
\*   TRG[d+1] -= (W->REAL * sin(th) - W->IMAG * cos(th)) * W->K[d]
\* each kept as written, with the amplitudes, the phase and K[d]; they are 0,
\* and left out of the sum, only when both amplitudes are 0
IdftTerms(W, J, cycle) ==
  LET th == Phase(W.K, J, cycle)
      c  == IF W.REAL = Zero /\ W.IMAG = Zero THEN 0 ELSE 1
  IN  << [op |-> "wpot", c |-> c, re |-> W.REAL, im |-> W.IMAG, th |-> th],
         [op |-> "wfrc", c |-> -c, k |-> W.K[1],
          re |-> W.REAL, im |-> W.IMAG, th |-> th],
         [op |-> "wfrc", c |-> -c, k |-> W.K[2],
          re |-> W.REAL, im |-> W.IMAG, th |-> th],
         [op |-> "wfrc", c |-> -c, k |-> W.K[3],
          re |-> W.REAL, im |-> W.IMAG, th |-> th] >>

\* body of the loop over waves of idft, for one wave
IdftWave(TRG, W, J, cycle) ==
  [d \in 1..4 |-> Acc(TRG[d], IdftTerms(W, J, cycle)[d])]

RECURSIVE IdftWaves(_, _, _, _)
\* vec4 TRG = 0; then waves 1..n
IdftWaves(ws, J, n, cycle) ==
  IF n = 0 THEN ZeroTRG
  ELSE IdftWave(IdftWaves(ws, J, n - 1, cycle), ws[n], J, cycle)

\* for (int d=0; d<3; d++) TRG[d+1] *= scale[d];
IdftScale(TRG) ==
  << TRG[1], Scaled(TRG[2], [op |-> "scale", d |-> 1]),
     Scaled(TRG[3], [op |-> "scale", d |-> 2]),
     Scaled(TRG[4], [op |-> "scale", d |-> 3]) >>

\* Ibodies[b] += TRG;
IdftAdd(I, TRG) ==
  [d \in 1..4 |->
     Acc(I[d], [op |-> "idft", c |-> IF TRG[d] = Zero THEN 0 ELSE 1, of |-> TRG[d]])]

\* one iteration of the loop over bodies of idft
IdftBody(I, ws, J, cycle) ==
  IdftAdd(I, IdftScale(IdftWaves(ws, J, Len(ws), cycle)))

\* void idft(Waves & waves, vec4 *Ibodies, vec4 *Jbodies, int numBodies) const,
\* the iterations run one after the other
idft(ws, Ib, Jb, numBodies, cycle) ==
  [b \in 1..Len(Ib) |->
     IF b <= numBodies THEN IdftBody(Ib[b], ws, Jb[b], cycle) ELSE Ib[b]]

\* void wavePart(vec4 *Ibodies, vec4 *Jbodies, int numBodies): what it leaves
\* in Ibodies
wavePart(Ib, Jb, numBodies, E) ==
  idft(filter(dft(initWaves(E.ksize), Jb, numBodies, E.cycle), E.cycle),
       Ib, Jb, numBodies, E.cycle)

----------------------------------------------------------------------------
(* Specification SpecWavePart: one wavePart call; the iterations of the two
   parallel loops take their steps in any interleaving *)

\* length of the arrays Ibodies and Jbodies
MaxWaveBodies == 2

\* the <<x, y, z, q>> a slot of Jbodies is drawn from
WaveJbodies == {<<0, 0, 0, 1>>, <<1, 2, 3, -1>>, <<2, 0, 5, 2>>}

\* what an earlier pass left in slot b of Ibodies
PrevTRG(b) ==
  IF b = 1 THEN ZeroTRG
  ELSE << <<[op |-> "prev", c |-> 1, b |-> b, d |-> 0]>>,
          <<[op |-> "prev", c |-> 1, b |-> b, d |-> 1]>>,
          <<[op |-> "prev", c |-> 1, b |-> b, d |-> 2]>>,
          <<[op |-> "prev", c |-> 1, b |-> b, d |-> 3]>> >>

InitWavePartSpec ==
  /\ ewald \in [ksize : {0, 1}, cutoff : {1}, cycle : {<<8, 8, 8>>}]
  /\ bodies = NoBodies /\ cells = <<>> /\ jcells = <<>>
  /\ waves = <<>>
  /\ Ibodies = [b \in 1..MaxWaveBodies |-> PrevTRG(b)]
  /\ Jbodies \in [1..MaxWaveBodies -> WaveJbodies]
  /\ pc = "call"
  /\ loc \in [n : 0..MaxWaveBodies, dit : {<<>>}, w : {0}, bit : {<<>>},
              trg : {<<>>}]
  /\ hist = [I0 |-> Ibodies, J0 |-> Jbodies, acc |-> {}, wlog |-> <<>>]

WavePartFrame == UNCHANGED <<ewald, bodies, cells, jcells>>

\* a memory access of iteration it of the parallel loop reg
Access(reg, it, k, i, f, wr) ==
  [reg |-> reg, it |-> it, loc |-> [k |-> k, i |-> i, f |-> f], wr |-> wr]

\* mutant of DftSlot: every iteration takes waves.begin()
DftSlotFirst(w) == 1

\* W_iter W=waves.begin()+w;  (waves are numbered from 1 here)
DftSlot(w) == w

\* mutant of IdftSlot: every iteration adds into Ibodies[0]
IdftSlotFirst(b) == 1

\* the slot of Ibodies[b] += TRG  (bodies are numbered from 1 here)
IdftSlot(b) == b

\* the accesses of step p of iteration w of dft: p = 0 clears the wave, p = b
\* accumulates body b
DftAccesses(w, p) ==
  {Access("dft", w, "W", DftSlot(w), "REAL", TRUE),
   Access("dft", w, "W", DftSlot(w), "IMAG", TRUE)}
  \cup (IF p = 0 THEN {}
        ELSE {Access("dft", w, "W", DftSlot(w), "K", FALSE),
              Access("dft", w, "W", DftSlot(w), "REAL", FALSE),
              Access("dft", w, "W", DftSlot(w), "IMAG", FALSE),
              Access("dft", w, "J", p, "vec4", FALSE)})

\* the accesses of step p of iteration b of idft over nw waves: p < nw reads
\* wave p + 1 into the private TRG, p = nw adds TRG into Ibodies
IdftAccesses(b, p, nw) ==
  IF p < nw
    THEN {Access("idft", b, "W", p + 1, "K", FALSE),
          Access("idft", b, "W", p + 1, "REAL", FALSE),
          Access("idft", b, "W", p + 1, "IMAG", FALSE),
          Access("idft", b, "J", b, "vec4", FALSE)}
    ELSE {Access("idft", b, "I", IdftSlot(b), "vec4", FALSE),
          Access("idft", b, "I", IdftSlot(b), "vec4", TRUE)}

\* Waves waves = initWaves();  dft(waves,Jbodies,numBodies) is entered
WP_Enter ==
  /\ pc = "call"
  /\ waves' = initWaves(ewald.ksize)
  /\ loc' = [loc EXCEPT !.dit = [w \in 1..Len(waves') |-> 0]]
  /\ hist' = [hist EXCEPT
       !.wlog = [w \in 1..Len(waves') |-> [dft |-> 0, scal |-> <<>>]]]
  /\ pc' = "dft"
  /\ UNCHANGED <<Ibodies, Jbodies>>
  /\ WavePartFrame

\* one step of iteration w of the parallel loop of dft
WP_Dft(w) ==
  /\ pc = "dft"
  /\ loc.dit[w] <= loc.n
  /\ LET p == loc.dit[w]
         s == DftSlot(w)
     IN  /\ waves' = [waves EXCEPT ![s] =
                        IF p = 0 THEN DftZero(@)
                        ELSE DftBody(@, Jbodies[p], ewald.cycle)]
         /\ loc' = [loc EXCEPT !.dit[w] = p + 1]
         /\ hist' = [hist EXCEPT !.acc = @ \cup DftAccesses(w, p),
                                 !.wlog[s].dft = @ + 1]
  /\ UNCHANGED <<pc, Ibodies, Jbodies>>
  /\ WavePartFrame

\* mutant of DftJoined: the loop over waves of wavePart does not wait for the
\* whole team
DftJoinedAny(dit, n) == dit = <<>> \/ \E w \in 1..Len(dit) : dit[w] = n + 1

\* the end of the parallel region of dft: every iteration has finished
DftJoined(dit, n) == \A w \in 1..Len(dit) : dit[w] = n + 1

\* dft returns; the loop over waves of wavePart starts
WP_DftJoin ==
  /\ pc = "dft"
  /\ DftJoined(loc.dit, loc.n)
  /\ pc' = "filter"
  /\ loc' = [loc EXCEPT !.w = 1]
  /\ UNCHANGED <<waves, Ibodies, Jbodies, hist>>
  /\ WavePartFrame

\* one turn of the loop over waves of wavePart
WP_Filter ==
  /\ pc = "filter"
  /\ loc.w <= Len(waves)
  /\ waves' = [waves EXCEPT ![loc.w] = FilterWave(@, ewald.cycle)]
  /\ hist' = [hist EXCEPT
       !.wlog[loc.w].scal = @ \o FilterWrites(waves[loc.w], ewald.cycle)]
  /\ loc' = [loc EXCEPT !.w = @ + 1]
  /\ UNCHANGED <<pc, Ibodies, Jbodies>>
  /\ WavePartFrame

\* the loop over waves has ended; idft(waves,Ibodies,Jbodies,numBodies) is
\* entered
WP_FilterEnd ==
  /\ pc = "filter"
  /\ loc.w > Len(waves)
  /\ pc' = "idft"
  /\ loc' = [loc EXCEPT !.bit = [b \in 1..loc.n |-> 0],
                        !.trg = [b \in 1..loc.n |-> ZeroTRG]]
  /\ UNCHANGED <<waves, Ibodies, Jbodies, hist>>
  /\ WavePartFrame

\* one step of iteration b of the parallel loop of idft
WP_Idft(b) ==
  /\ pc = "idft"
  /\ loc.bit[b] <= Len(waves)
  /\ LET p == loc.bit[b]
     IN  /\ IF p < Len(waves)
              THEN /\ loc' = [loc EXCEPT
                        !.bit[b] = p + 1,
                        !.trg[b] = IdftWave(IF p = 0 THEN ZeroTRG ELSE @,
                                            waves[p + 1], Jbodies[b], ewald.cycle)]
                   /\ UNCHANGED Ibodies
              ELSE /\ loc' = [loc EXCEPT !.bit[b] = p + 1]
                   /\ Ibodies' = [Ibodies EXCEPT ![IdftSlot(b)] =
                                    IdftAdd(@, IdftScale(loc.trg[b]))]
         /\ hist' = [hist EXCEPT !.acc = @ \cup IdftAccesses(b, p, Len(waves))]
  /\ UNCHANGED <<pc, waves, Jbodies>>
  /\ WavePartFrame

\* idft and wavePart return; the local waves is destroyed
WP_Return ==
  /\ pc = "idft"
  /\ \A b \in 1..loc.n : loc.bit[b] = Len(waves) + 1
  /\ waves' = <<>>
  /\ pc' = "ret"
  /\ UNCHANGED <<loc, Ibodies, Jbodies, hist>>
  /\ WavePartFrame

NextWavePart ==
  \/ WP_Enter
  \/ \E w \in 1..Len(waves) : WP_Dft(w)
  \/ WP_DftJoin
  \/ WP_Filter
  \/ WP_FilterEnd
  \/ \E b \in 1..loc.n : WP_Idft(b)
  \/ WP_Return

SpecWavePart == InitWavePartSpec /\ [][NextWavePart]_vars

----------------------------------------------------------------------------
(* C6, C8 over SpecWavePart *)

\* two accesses by different iterations of one parallel loop to one location
Concurrent(a1, a2) ==
  a1.reg = a2.reg /\ a1.it # a2.it /\ a1.loc = a2.loc

\* what the two loops leave when their iterations run one after the other
SerialWaves ==
  filter(dft(initWaves(ewald.ksize), hist.J0, loc.n, ewald.cycle), ewald.cycle)

\* C6: in the parallel loops of dft and idft, under every interleaving, no
\* location written by one iteration is read or written by another; a dft
\* iteration writes only REAL and IMAG of its own wave, an idft iteration
\* writes only its own Ibodies[b] and no wave, Jbodies is only read; what dft
\* leaves in the waves and what idft leaves in Ibodies are what the iterations
\* run one after the other leave.
C6_RaceFree ==
  /\ \A a1, a2 \in hist.acc : Concurrent(a1, a2) => ~a1.wr /\ ~a2.wr
  /\ \A a \in hist.acc :
       a.wr =>
         \/ a.reg = "dft" /\ a.loc.k = "W" /\ a.loc.i = a.it
                          /\ a.loc.f \in {"REAL", "IMAG"}
         \/ a.reg = "idft" /\ a.loc.k = "I" /\ a.loc.i = a.it
  /\ Jbodies = hist.J0
  /\ (pc = "filter" /\ loc.w = 1 =>
        waves = dft(initWaves(ewald.ksize), Jbodies, loc.n, ewald.cycle))
  /\ (pc = "idft" => waves = SerialWaves)
  /\ (pc = "ret" => Ibodies = wavePart(hist.I0, Jbodies, loc.n, ewald))

\* wavePart has returned after three waves and at least two bodies: locations
\* were read by several iterations, Ibodies has changed
C6_Witness ==
  /\ pc = "ret" /\ Len(hist.wlog) = 3 /\ loc.n >= 2
  /\ Ibodies # hist.I0
  /\ \E a1, a2 \in hist.acc : Concurrent(a1, a2) /\ a1.reg = "dft"
  /\ \E a1, a2 \in hist.acc : Concurrent(a1, a2) /\ a1.reg = "idft"

\* every wave has been written by each step of its dft iteration
DftComplete == \A w \in 1..Len(hist.wlog) : hist.wlog[w].dft = loc.n + 1

\* every wave has been scaled: REAL, then IMAG, once each, by one factor
FilterComplete ==
  \A w \in 1..Len(hist.wlog) :
    LET sc == hist.wlog[w].scal
    IN  /\ Len(sc) = 2
        /\ sc[1].field = "REAL" /\ sc[2].field = "IMAG"
        /\ sc[1].by = sc[2].by

C8_Ordered ==
  \* created with zero amplitude
  /\ (pc = "dft" /\ (\A w \in 1..Len(waves) : loc.dit[w] = 0) =>
        \A w \in 1..Len(waves) : waves[w].REAL = Zero /\ waves[w].IMAG = Zero)
  \* no wave is scaled before dft has written every wave
  /\ ((\E w \in 1..Len(hist.wlog) : hist.wlog[w].scal # <<>>) => DftComplete)
  /\ (pc = "filter" => DftComplete)
  \* no wave is scaled more than once, both parts by one factor
  /\ \A w \in 1..Len(hist.wlog) :
       LET sc == hist.wlog[w].scal
       IN  sc # <<>> => /\ Len(sc) = 2 /\ sc[1].by = sc[2].by
                        /\ sc[1].field = "REAL" /\ sc[2].field = "IMAG"
  \* idft runs on filtered waves only and writes none
  /\ ((\E a \in hist.acc : a.reg = "idft") => FilterComplete)
  /\ (pc \in {"idft", "ret"} => FilterComplete)
  /\ (pc = "idft" => waves = SerialWaves)
  /\ \A a \in hist.acc : a.reg = "idft" /\ a.wr => a.loc.k # "W"
  \* the waves do not outlive the call
  /\ (pc = "ret" => waves = <<>>)

\* the amplitudes are written by dft steps while dft runs, by the wave factor
\* loop while it runs, and by nothing else
C8_Writes ==
  waves' # waves =>
    \/ pc = "call" /\ pc' = "dft"
    \/ pc = "dft" /\ pc' = "dft"
    \/ pc = "filter" /\ pc' = "filter"
         /\ waves' = [waves EXCEPT ![loc.w] =
                        [@ EXCEPT !.REAL = Scaled(@, WaveFactor(waves[loc.w].K, ewald.cycle)),
                                  !.IMAG = Scaled(@, WaveFactor(waves[loc.w].K, ewald.cycle))]]
    \/ pc = "idft" /\ pc' = "ret" /\ waves' = <<>>

\* C8: within one wavePart call every wave is created with zero amplitude, dft
\* writes every wave's amplitude before the wave factor loop scales any, the
\* loop scales REAL and IMAG of each wave exactly once by the same factor, idft
\* starts only after every wave has been scaled and writes no wave amplitude,
\* and the waves do not survive the call.
C8_Phases == [](C8_Ordered) /\ [][C8_Writes]_vars

\* wavePart has returned after three waves with nonzero amplitudes went
\* through dft, the wave factor loop and idft over at least two bodies
C8_Witness ==
  /\ pc = "ret" /\ Len(hist.wlog) = 3 /\ loc.n >= 2
  /\ DftComplete /\ FilterComplete
  /\ \A w \in 1..3 : SerialWaves[w].REAL # Zero
  /\ \E w \in 1..3 : SerialWaves[w].IMAG # Zero
  /\ Ibodies # hist.I0

----------------------------------------------------------------------------
(* Specification SpecFrame: realPart, selfTerm, wavePart, getDipole,
   dipoleCorrection and initTarget called in any order, each call one step *)

\* number of calls made in one behaviour
MaxFrameCalls == 4

\* a target tree whose only leaf holds bodies 1 and 2 of the five
FrameTargetTree ==
  << Cell(<<8, 8, 8>>, 8, 1, 5, 1, 1),
     Cell(<<4, 8, 8>>, 4, 1, 2, 0, 0) >>

FrameBodies ==
  {<< Body(<<x1, 8, 8>>, 1), Body(<<5, 8, 8>>, -1), Body(<<10, 8, 8>>, 2),
      Body(<<11, 8, 8>>, 1), Body(<<15, 8, 8>>, -2) >> : x1 \in {3, 4}}

\* the vec4 <<x, y, z, q>> of a body
BodyVec4(B) == <<B.X[1], B.X[2], B.X[3], B.SRC>>

InitFrameSpec ==
  /\ ewald \in [ksize : {1}, cutoff : {2}, cycle : {RealCycle},
               digits : {FloatDigits, DoubleDigits}]
  /\ bodies \in FrameBodies
  /\ cells \in {LineTreeDeep, FrameTargetTree}
  /\ jcells = LineTreeDeep
  /\ waves = <<>>
  /\ Ibodies = [b \in 1..Len(bodies) |-> ZeroTRG]
  /\ Jbodies = [b \in 1..Len(bodies) |-> BodyVec4(bodies[b])]
  /\ pc = "idle"
  /\ loc \in [X0 : {<<0, 0, 0>>}, dipole : {<<0, 0, 0>>}]
  /\ hist = <<>>

\* the caller makes one more call
FrameCall(name) ==
  /\ Len(hist) < MaxFrameCalls
  /\ hist' = Append(hist, name)
  /\ UNCHANGED <<ewald, waves, pc>>

\* realPart(cells, jcells)
FR_RealPart ==
  /\ FrameCall("realPart")
  /\ bodies' = realPart(bodies, cells, jcells, ewald)
  /\ UNCHANGED <<cells, jcells, Ibodies, Jbodies, loc>>

\* selfTerm(bodies)
FR_SelfTerm ==
  /\ FrameCall("selfTerm")
  /\ bodies' = selfTerm(bodies)
  /\ UNCHANGED <<cells, jcells, Ibodies, Jbodies, loc>>

\* wavePart(Ibodies, Jbodies, numBodies)
FR_WavePart ==
  /\ FrameCall("wavePart")
  /\ Ibodies' = wavePart(Ibodies, Jbodies, Len(Jbodies), ewald)
  /\ UNCHANGED <<bodies, cells, jcells, Jbodies, loc>>

\* vec3 dipole = getDipole(bodies, X0)
FR_GetDipole ==
  /\ FrameCall("getDipole")
  /\ loc' = [loc EXCEPT !.dipole = getDipole(bodies, loc.X0)]
  /\ UNCHANGED <<bodies, cells, jcells, Ibodies, Jbodies>>

\* dipoleCorrection(bodies, dipole, bodies.size(), cycle)
FR_DipoleCorrection ==
  /\ FrameCall("dipoleCorrection")
  /\ bodies' = dipoleCorrection(bodies, loc.dipole, Len(bodies), ewald.cycle)
  /\ UNCHANGED <<cells, jcells, Ibodies, Jbodies, loc>>

\* initTarget(bodies)
FR_InitTarget ==
  /\ FrameCall("initTarget")
  /\ bodies' = initTarget(bodies)
  /\ UNCHANGED <<cells, jcells, Ibodies, Jbodies, loc>>

NextFrame ==
  \/ FR_InitTarget
  \/ FR_RealPart
  \/ FR_SelfTerm
  \/ FR_WavePart
  \/ FR_GetDipole
  \/ FR_DipoleCorrection

SpecFrame == InitFrameSpec /\ [][NextFrame]_vars

\* the bodies in the range of some leaf of a tree
LeafBodies(cs) ==
  UNION {OwnedBodies(cs, c) : c \in {d \in 1..Len(cs) : IsLeaf(cs[d])}}

\* the places of real-space potential terms in the accumulator of body i
RealTerms(i) ==
  {k \in 1..Len(bodies[i].TRG[1]) : bodies[i].TRG[1][k].op = "pot"}

\* the call a step has just made
Called(name) == Len(hist') = Len(hist) + 1 /\ hist'[Len(hist')] = name

C5_Step ==
  /\ cells' = cells /\ jcells' = jcells
  /\ Jbodies' = Jbodies
  /\ Len(bodies') = Len(bodies) /\ Len(Ibodies') = Len(Ibodies)
  /\ \A i \in 1..Len(bodies) :
       bodies'[i].X = bodies[i].X /\ bodies'[i].SRC = bodies[i].SRC
  /\ (~Called("initTarget") =>
        \A i \in 1..Len(bodies) :
          bodies'[i] = [bodies[i] EXCEPT !.TRG = bodies'[i].TRG])
  /\ (Called("realPart") =>
        /\ Ibodies' = Ibodies
        /\ \A i \in 1..Len(bodies) :
             bodies'[i].TRG # bodies[i].TRG => i \in LeafBodies(cells))
  /\ (Called("getDipole") => bodies' = bodies /\ Ibodies' = Ibodies)

\* C5: no call of realPart, selfTerm, wavePart, getDipole or dipoleCorrection
\* (nor of initTarget, made in between) changes a position, a source strength,
\* the order of the bodies or a field of a cell; the five write target
\* accumulators only, realPart only those of bodies of leaf target cells,
\* getDipole none.
C5_Frame == [][C5_Step]_vars

\* four different calls have been made on the target tree whose leaf holds two
\* of the five bodies: realPart has written into the leaf, a body outside it
\* holds no real-space term, wavePart has written Ibodies
C5_Witness ==
  /\ Len(hist) = 4 /\ Cardinality({hist[k] : k \in 1..4}) = 4
  /\ \E k \in 1..4 : hist[k] = "getDipole"
  /\ cells = FrameTargetTree
  /\ \E i \in LeafBodies(cells) : RealTerms(i) # {}
  /\ \E i \in 1..Len(bodies) : i \notin LeafBodies(cells) /\ bodies[i].TRG # ZeroTRG
  /\ \A i \in 1..Len(bodies) : i \notin LeafBodies(cells) => RealTerms(i) = {}
  /\ Ibodies # [b \in 1..Len(bodies) |-> ZeroTRG]

============================================================================
